---------------------------- MODULE Spec2Model ----------------------------
(***************************************************************************)
(* Benchmark harness of blvm-commons:                                      *)
(*   scripts/benchmark_bitcoin_core.py  (BitcoinCoreBenchmark: the daemon  *)
(*       lifecycle, rpc_call, the three workloads, run_all_benchmarks,     *)
(*       main)                                                             *)
(*   scripts/compare_benchmarks.py      (parse_criterion_results,          *)
(*       load_benchmark_results, compare_common_metrics, main)             *)
(*   scripts/export_benchmarks.py       (parse_criterion_results,          *)
(*       export_benchmarks, main)                                          *)
(* Four state machines share the module: Spec is one run of the run        *)
(* command (run_all_benchmarks and main's tail) against an external        *)
(* daemon; SpecStop is stop_bitcoind invoked repeatedly in any daemon      *)
(* state; SpecCompare is one run of the compare command over a bounded set *)
(* of input files; SpecExport is one run of the export command over a      *)
(* bounded set of statistics reports.                                      *)
(***************************************************************************)
EXTENDS Integers, Sequences, FiniteSets, TLC

VARIABLES
    \* ---- environment of benchmark_bitcoin_core.py
    bitcoindOk,     \* _check_binary(bitcoind_path)
    cliOk,          \* _check_binary(bitcoin_cli_path)
    daemon,         \* the launched process: none | up | hung | dead | stopped
    abnormal,       \* calls answered abnormally by a live daemon so far
    slow,           \* timed calls that took the slow latency so far
    regtestDir,     \* self.regtest_dir: absent | stale | fresh
    \* ---- program state of run_all_benchmarks
    pc,             \* position in run_all_benchmarks / start_bitcoind / workload
    i,              \* index of the running for-loop
    times,          \* the workload's list `times` (len, sum, min, max)
    loc,            \* the workload's local variables
    benchmarks,     \* results["benchmarks"]
    pending,        \* what the try block is leaving with (return value / exception)
    ret,            \* what run_all_benchmarks handed to its caller
    \* ---- observations (what a recording test double would see)
    startResult,    \* how start_bitcoind ended
    polls,          \* liveness polls issued by start_bitcoind
    pollsNone,      \* ... of which returned None
    sleeps,         \* time.sleep(1) calls made by start_bitcoind
    stopInvoked,    \* invocations of stop_bitcoind
    stopSent,       \* `bitcoin-cli stop` commands executed
    rmCalls,        \* removals of the regtest directory by run_all_benchmarks
    order,          \* workloads entered, in order
    collected,      \* workload -> len(times) when it returned
    iters,          \* workload -> timed calls it issued
    usable,         \* workload -> timed calls whose value passed the sample test
    lastRpc,        \* the last rpc_call: process outcome and what it gave the caller
    \* ---- compare_benchmarks.py
    cpc,            \* position in compare_benchmarks
    criterionFile,  \* consensus_proof.json in the BTCDecoded directory
    coreFile,       \* bitcoin_core.json in the Bitcoin Core directory
    btdcoded,       \* comparison["btdcoded"]
    core,           \* comparison["bitcoin_core"]
    comparison,     \* comparison["comparison"]
    cmpDirs,        \* which of the two result directories exist
    cmpExit,        \* how the compare command ended
    cmpReport,      \* the comparison report was written
    \* ---- the run command (main of benchmark_bitcoin_core.py)
    runExit,        \* how the run command ended
    runReport,      \* the JSON report was written
    stopLog,        \* one entry per stop_bitcoind invocation: what the stop command did
    startDirOps,    \* start_bitcoind has run an operation on the data directory
    \* ---- export_benchmarks.py
    epc,            \* position in main / export_benchmarks
    exportFile,     \* the --input statistics report
    exportResults,  \* results of parse_criterion_results
    exportQueue,    \* names the export loop has still to visit
    exportOutput,   \* output["benchmarks"]
    exportExit,     \* how the export command ended
    exportReport    \* the export file was written

envVars  == <<bitcoindOk, cliOk, daemon, abnormal, slow, regtestDir>>
progVars == <<pc, i, times, loc, benchmarks, pending, ret>>
obsVars  == <<startResult, polls, pollsNone, sleeps, stopInvoked, stopSent,
              rmCalls, order, collected, iters, usable, lastRpc>>
cmpVars  == <<cpc, criterionFile, coreFile, btdcoded, core, comparison>>
runVars  == <<runExit, runReport, stopLog, startDirOps>>
cmdVars  == <<cmpDirs, cmpExit, cmpReport>>
expVars  == <<epc, exportFile, exportResults, exportQueue, exportOutput, exportExit,
              exportReport>>
vars     == <<envVars, progVars, obsVars, cmpVars, runVars, cmdVars, expVars>>

----------------------------------------------------------------------------
(* Bounds of the model *)

\* calls a live daemon may answer abnormally (error, timeout, odd shape) in one run
MaxAbnormal == 1
\* timed calls that may take the slow latency in one run
MaxSlow == 0

(* Program constants *)
StartPolls    == 20      \* for i in range(20)
RecheckPolls  == 10      \* for i in range(10)
TxRepeats     == 50      \* for _ in range(50)
BlockRepeats  == 10      \* for _ in range(10)
HashRepeats   == 100     \* for i in range(1, 101)
MinHeight     == 100     \* current_height < 100
NsPerMs       == 1000000
NsPerSec      == 1000000000

\* elapsed milliseconds a timed call may measure: (end - start) * 1000
ElapsedMs == {1, 2}

----------------------------------------------------------------------------
(* Exact rationals stand for Python floats *)

RECURSIVE Gcd(_, _)
Gcd(a, b) == IF b = 0 THEN a ELSE Gcd(b, a % b)

Abs(x) == IF x < 0 THEN -x ELSE x

\* n / d with d # 0, in lowest terms with a positive denominator
Rat(n, d) ==
    LET g == Gcd(Abs(n), Abs(d))
        s == IF d < 0 THEN -1 ELSE 1
    IN  [num |-> (s * n) \div g, den |-> (s * d) \div g]

RatDiv(a, b) == Rat(a.num * b.den, a.den * b.num)
RatLess(a, b) == a.num * b.den < b.num * a.den
RatPos(a) == a.num > 0
Zero == Rat(0, 1)

----------------------------------------------------------------------------
(* Python values handed around by rpc_call *)

None      == [t |-> "none", v |-> 0]
Num(n)    == [t |-> "num",  v |-> n]
Str(s)    == [t |-> "str",  v |-> s]
List(q)   == [t |-> "list", v |-> q]
Dict(ks)  == [t |-> "dict", v |-> ks]      \* the keys; the values are never read

\* bool(v)
Truthy(v) ==
    CASE v.t = "none" -> FALSE
      [] v.t = "num"  -> v.v # 0
      [] v.t = "str"  -> v.v # ""
      [] v.t = "list" -> Len(v.v) > 0
      [] v.t = "dict" -> v.v # {}

\* len(v) raises TypeError for these
NoLen(v) == v.t \in {"none", "num"}

\* what the client process can print on success
Stdouts == { "0\n", "101\n", "null\n", "", "bcrt1q\n", "0200\n", "00ab\n",
             "[]\n", "[\"00ab\"]\n", "[{\"txid\":\"aa\",\"vout\":0}]\n",
             "[{\"allowed\":true}]\n", "{}\n", "{\"hex\":\"0200\"}\n" }

\* json.loads raises JSONDecodeError on these
NotJson == { "", "bcrt1q\n", "0200\n", "00ab\n" }

\* json.loads(s) for s that is JSON
JsonLoads(s) ==
    CASE s = "0\n"    -> Num(0)
      [] s = "101\n"  -> Num(101)
      [] s = "null\n" -> None
      [] s = "[]\n"   -> List(<<>>)
      [] s = "[\"00ab\"]\n" -> List(<<Str("00ab")>>)
      [] s = "[{\"txid\":\"aa\",\"vout\":0}]\n" -> List(<<Dict({"txid", "vout"})>>)
      [] s = "[{\"allowed\":true}]\n" -> List(<<Dict({"allowed"})>>)
      [] s = "{}\n"   -> Dict({})
      [] s = "{\"hex\":\"0200\"}\n" -> Dict({"hex"})

\* s.strip()
Strip(s) ==
    CASE s = ""         -> ""
      [] s = "bcrt1q\n" -> "bcrt1q"
      [] s = "0200\n"   -> "0200"
      [] s = "00ab\n"   -> "00ab"
      [] OTHER          -> s

----------------------------------------------------------------------------
(* rpc_call: one run of the client process *)

Timeout   == [kind |-> "timeout", rc |-> 0, out |-> ""]   \* subprocess.TimeoutExpired
OsError   == [kind |-> "oserror", rc |-> 0, out |-> ""]   \* the client cannot be executed
Exit(rc, out) == [kind |-> "exit", rc |-> rc, out |-> out]

Returned(v) == [raised |-> FALSE, val |-> v, exc |-> ""]
Raised(e)   == [raised |-> TRUE,  val |-> None, exc |-> e]

rpc_call_raises_on_failure(o) ==
    CASE o.kind = "oserror" -> Raised("OSError")
      [] o.kind = "timeout" -> Returned(None)
      [] o.kind = "exit" ->
            IF o.rc = 0
            THEN IF o.out \in NotJson THEN Returned(Str(Strip(o.out)))
                 ELSE Returned(JsonLoads(o.out))
            ELSE Raised("CalledProcessError")

rpc_call(o) ==
    CASE o.kind = "oserror" -> Raised("OSError")
      [] o.kind = "timeout" -> Returned(None)
      [] o.kind = "exit" ->
            IF o.rc = 0
            THEN IF o.out \in NotJson THEN Returned(Str(Strip(o.out)))
                 ELSE Returned(JsonLoads(o.out))
            ELSE Returned(None)

----------------------------------------------------------------------------
(* The daemon as the client sees it *)

\* the answers a healthy daemon gives to each method
Nominal(method) ==
    CASE method = "getblockcount"     -> {"0\n", "101\n"}
      [] method = "getnewaddress"     -> {"bcrt1q\n"}
      [] method = "generatetoaddress" -> {"[\"00ab\"]\n"}
      [] method = "listunspent"       -> {"[{\"txid\":\"aa\",\"vout\":0}]\n"}
      [] method = "createrawtransaction" -> {"0200\n"}
      [] method = "signrawtransactionwithwallet" -> {"{\"hex\":\"0200\"}\n"}
      [] method = "testmempoolaccept" -> {"[{\"allowed\":true}]\n"}
      [] method = "getblockhash"      -> {"00ab\n"}

\* Every way one call can end, with the daemon state and abnormal count after it.
\* A live daemon answers nominally, or abnormally (within MaxAbnormal), or dies or
\* hangs at this call; it rejects a call whose arguments are not what the method
\* takes (argsOk); a hung daemon times every call out; no daemon refuses.
EnvOutcomes(method, argsOk) ==
    IF ~cliOk THEN {[o |-> OsError, d |-> daemon, ab |-> abnormal]}
    ELSE CASE daemon = "up" /\ ~argsOk ->
                {[o |-> Exit(1, ""), d |-> "up", ab |-> abnormal],
                 [o |-> Exit(1, ""), d |-> "dead", ab |-> abnormal],
                 [o |-> Timeout, d |-> "hung", ab |-> abnormal]}
           [] daemon = "up" /\ argsOk ->
                {[o |-> Exit(0, s), d |-> "up", ab |-> abnormal] : s \in Nominal(method)}
                \cup {[o |-> Exit(1, ""), d |-> "dead", ab |-> abnormal],
                      [o |-> Timeout, d |-> "hung", ab |-> abnormal]}
                \cup (IF abnormal < MaxAbnormal
                      THEN {[o |-> x, d |-> "up", ab |-> abnormal + 1] :
                               x \in ({Exit(0, s) : s \in Stdouts \ Nominal(method)}
                                       \cup {Exit(1, ""), Timeout})}
                      ELSE {})
           [] daemon = "hung" -> {[o |-> Timeout, d |-> "hung", ab |-> abnormal]}
           [] OTHER -> {[o |-> Exit(1, ""), d |-> daemon, ab |-> abnormal]}

\* elapsed time of one timed call
FastMs == CHOOSE m \in ElapsedMs : \A k \in ElapsedMs : m <= k
Elapsed == IF slow < MaxSlow THEN ElapsedMs ELSE {FastMs}

----------------------------------------------------------------------------
(* Samples and their reduction to a statistic *)

Workloads == {"transaction_validation", "block_validation", "hash_operations"}

\* the list `times`, kept as what the code reads of it: len, sum, min, max
NoTimes == [len |-> 0, sum |-> 0, min |-> 0, max |-> 0]

\* times.append(ms)
Push(t, ms) ==
    [len |-> t.len + 1,
     sum |-> t.sum + ms,
     min |-> IF t.len = 0 \/ ms < t.min THEN ms ELSE t.min,
     max |-> IF t.len = 0 \/ ms > t.max THEN ms ELSE t.max]

Err(msg) == [error |-> msg]
IsError(r) == "error" \in DOMAIN r
IsStat(r)  == "mean_ms" \in DOMAIN r

\* {"mean_ms": sum(times) / len(times), "min_ms": ..., "max_ms": ..., "samples": ...}
Reduce(t) ==
    [mean_ms |-> Rat(t.sum, t.len),
     min_ms  |-> Rat(t.min, 1),
     max_ms  |-> Rat(t.max, 1),
     samples |-> t.len]

SummarizeZeroFilled(w, t) ==
    IF t.len = 0
    THEN [mean_ms |-> Zero, min_ms |-> Zero, max_ms |-> Zero, samples |-> 0]
    ELSE Reduce(t)

\* the tail of each workload: if not times: return {"error": ...}; return {...}
Summarize(w, t) ==
    IF t.len = 0 THEN Err("No valid measurements")
    ELSE IF w = "hash_operations"
         THEN [mean_ms |-> Rat(t.sum, t.len),
               min_ms  |-> Rat(t.min, 1),
               max_ms  |-> Rat(t.max, 1),
               samples |-> t.len,
               note    |-> "Using getblockhash as proxy for SHA256 operations"]
         ELSE Reduce(t)

\* fixed repeat count of each workload's timed loop
Repeats(w) ==
    CASE w = "transaction_validation" -> TxRepeats
      [] w = "block_validation"       -> BlockRepeats
      [] w = "hash_operations"        -> HashRepeats

----------------------------------------------------------------------------
(* Python tests the workloads apply to a returned value *)

IsNone(v) == v.t = "none"

\* len(v), as far as it is read (zero or not)
PyLen(v) ==
    CASE v.t = "list" -> Len(v.v)
      [] v.t = "dict" -> Cardinality(v.v)
      [] v.t = "str"  -> IF v.v = "" THEN 0 ELSE 1

\* "hex" in v, for v with a membership test
HasHex(v) ==
    CASE v.t = "dict" -> "hex" \in v.v
      [] v.t = "list" -> \E k \in 1..Len(v.v) : v.v[k].t = "str" /\ v.v[k].v = "hex"
      [] v.t = "str"  -> FALSE      \* no modelled text contains "hex"

PollReadyTruthy(v) == Truthy(v)

\* start_bitcoind / run_all_benchmarks: rpc_call("getblockcount") is not None
PollReady(v) == ~IsNone(v)

----------------------------------------------------------------------------
(* Control flow of run_all_benchmarks *)

NoLoc == [address |-> None, utxos |-> None, raw_tx |-> None, signed_tx |-> None]

Nothing     == [kind |-> "none",    info |-> ""]
ErrorObj(m) == [kind |-> "error",   info |-> m]
Results     == [kind |-> "results", info |-> ""]
Exc(e)      == [kind |-> "raise",   info |-> e]

FirstPc(w) ==
    CASE w = "transaction_validation" -> "tx_addr0"
      [] w = "block_validation"       -> "bl_addr"
      [] w = "hash_operations"        -> "hs_count"

NextAfterAbortOnError(w, res) ==
    IF IsError(res) THEN "finally_stop"
    ELSE CASE w = "transaction_validation" -> FirstPc("block_validation")
           [] w = "block_validation"       -> FirstPc("hash_operations")
           [] w = "hash_operations"        -> "finally_stop"

\* where control goes when workload w has returned res (the three assignments)
NextAfter(w, res) ==
    CASE w = "transaction_validation" -> FirstPc("block_validation")
      [] w = "block_validation"       -> FirstPc("hash_operations")
      [] w = "hash_operations"        -> "finally_stop"

WorkloadAt(p) ==
    CASE p \in {"tx_addr0", "tx_gen", "tx_listunspent", "tx_addr", "tx_create",
                "tx_sign", "tx_loop"} -> "transaction_validation"
      [] p \in {"bl_addr", "bl_loop"} -> "block_validation"
      [] p \in {"hs_count", "hs_addr", "hs_gen", "hs_loop"} -> "hash_operations"
      [] OTHER -> "none"

LeaveTrySkipStop(how) == "finally_rm"

LeaveTryNoFinally(how) == IF how.kind = "raise" THEN "returned" ELSE "finally_stop"

\* where control goes when the try block is left (return, fall through, exception)
LeaveTry(how) == "finally_stop"

startObs == <<startResult, polls, pollsNone, sleeps>>
stopObs  == <<stopInvoked, stopSent, rmCalls>>
loopObs  == <<iters, usable>>

\* one rpc_call: what it does to the daemon and what the observer records
Called(e, r) ==
    /\ daemon' = e.d
    /\ abnormal' = e.ab
    /\ lastRpc' = [o |-> e.o, r |-> r]

\* the running workload w returns res with samples t
WlReturn(w, res, t) ==
    /\ benchmarks' = benchmarks @@ (w :> res)
    /\ collected' = [collected EXCEPT ![w] = t.len]
    /\ pc' = NextAfter(w, res)
    /\ pending' = IF pc' = "finally_stop" THEN Results ELSE pending
    /\ order' = IF WorkloadAt(pc') # "none" THEN Append(order, WorkloadAt(pc')) ELSE order
    /\ i' = 0 /\ times' = NoTimes /\ loc' = NoLoc
    /\ UNCHANGED ret

\* an exception leaves the try block
WlRaise(e) ==
    /\ pending' = Exc(e)
    /\ pc' = LeaveTry(Exc(e))
    /\ i' = 0 /\ times' = NoTimes /\ loc' = NoLoc
    /\ UNCHANGED <<benchmarks, collected, order, ret>>

\* the workload goes on to its step p with locals l
WlStep(p, l) ==
    /\ pc' = p /\ loc' = l
    /\ UNCHANGED <<i, times, benchmarks, collected, order, pending, ret>>

----------------------------------------------------------------------------
(* start_bitcoind, called first thing by run_all_benchmarks *)

\* main, once run_all_benchmarks has handed it r: json.dump(results, f); then
\* sys.exit(1) if "error" in results, else the command falls off main.  An exception
\* out of run_all_benchmarks is caught nowhere: traceback, nothing written.
MainTail(r) ==
    IF r.kind = "raise"
    THEN runExit' = "uncaught" /\ runReport' = FALSE
    ELSE /\ runReport' = TRUE
         /\ runExit' = IF r.kind = "error" THEN "1" ELSE "0"

\* start_bitcoind returned False: run_all_benchmarks returns its error object
StartFailed(how) ==
    /\ startResult' = how
    /\ pc' = "returned"
    /\ ret' = ErrorObj("Failed to start bitcoind")
    /\ MainTail(ErrorObj("Failed to start bitcoind"))

\* start_bitcoind runs mkdir / rmtree / mkdir on the data directory only past the
\* check of the daemon binary
StartDirOps == bitcoindOk

\* shutil.rmtree(self.regtest_dir)
Rmtree(d) == "absent"

\* self.regtest_dir.mkdir(parents=True, exist_ok=True): a directory that is there
\* is left as it is
Mkdir(d) == IF d = "absent" THEN "fresh" ELSE d

RegtestDirKeptIfThere(d) == Mkdir(d)

\* if self.regtest_dir.exists(): shutil.rmtree(self.regtest_dir); then the mkdir
RegtestDirAtLaunch(d) == Mkdir(IF d # "absent" THEN Rmtree(d) ELSE d)

\* _check_binary, then the data directory: rmtree of an old regtest dir, mkdir
StartBitcoindCheck ==
    /\ pc = "start"
    /\ IF ~bitcoindOk
       THEN /\ StartFailed("binary_not_found")
            /\ UNCHANGED regtestDir
       ELSE /\ regtestDir' = RegtestDirAtLaunch(regtestDir)
            /\ pc' = "launch"
            /\ UNCHANGED <<startResult, ret, runExit, runReport>>
    /\ startDirOps' = StartDirOps
    /\ UNCHANGED stopLog
    /\ UNCHANGED <<bitcoindOk, cliOk, daemon, abnormal, slow>>
    /\ UNCHANGED <<i, times, loc, benchmarks, pending>>
    /\ UNCHANGED <<polls, pollsNone, sleeps, stopObs, order, collected, loopObs, lastRpc>>
    /\ UNCHANGED <<cmpVars, cmdVars, expVars>>

\* subprocess.run(cmd, check=True): the daemon forks and runs, or CalledProcessError
StartBitcoindLaunch ==
    /\ pc = "launch"
    /\ \E launched \in BOOLEAN :
          IF launched
          THEN /\ daemon' = "up"
               /\ pc' = "poll"
               /\ i' = 0
               /\ UNCHANGED <<startResult, ret, runExit, runReport>>
          ELSE /\ StartFailed("launch_failed")
               /\ UNCHANGED <<daemon, i>>
    /\ UNCHANGED <<bitcoindOk, cliOk, abnormal, slow, regtestDir>>
    /\ UNCHANGED <<times, loc, benchmarks, pending>>
    /\ UNCHANGED <<polls, pollsNone, sleeps, stopObs, order, collected, loopObs, lastRpc>>
    /\ UNCHANGED <<stopLog, startDirOps>>
    /\ UNCHANGED <<cmpVars, cmdVars, expVars>>

\* one turn of: for i in range(20): time.sleep(1); if rpc_call(...) is not None
StartBitcoindPoll ==
    /\ pc = "poll"
    /\ i < StartPolls
    /\ \E e \in EnvOutcomes("getblockcount", TRUE) :
          LET r == rpc_call(e.o) IN
          /\ Called(e, r)
          /\ sleeps' = sleeps + 1
          /\ polls' = polls + 1
          /\ IF r.raised
             THEN \* not caught by start_bitcoind nor by its caller
                  /\ startResult' = "raised"
                  /\ pc' = "returned"
                  /\ ret' = Exc(r.exc)
                  /\ MainTail(Exc(r.exc))
                  /\ UNCHANGED <<i, pollsNone, order>>
             ELSE IF PollReady(r.val)
             THEN /\ startResult' = "ready"
                  /\ pc' = "recheck"
                  /\ i' = 0
                  /\ pollsNone' = IF IsNone(r.val) THEN pollsNone + 1 ELSE pollsNone
                  /\ UNCHANGED <<ret, order, runExit, runReport>>
             ELSE /\ pollsNone' = IF IsNone(r.val) THEN pollsNone + 1 ELSE pollsNone
                  /\ IF i + 1 = StartPolls
                     THEN /\ StartFailed("unresponsive")
                          /\ UNCHANGED i
                     ELSE /\ i' = i + 1
                          /\ UNCHANGED <<startResult, pc, ret, runExit, runReport>>
                  /\ UNCHANGED order
    /\ UNCHANGED <<bitcoindOk, cliOk, slow, regtestDir>>
    /\ UNCHANGED <<times, loc, benchmarks, pending>>
    /\ UNCHANGED <<stopObs, collected, loopObs>>
    /\ UNCHANGED <<stopLog, startDirOps>>
    /\ UNCHANGED <<cmpVars, cmdVars, expVars>>

----------------------------------------------------------------------------
(* the try block of run_all_benchmarks *)

\* one turn of: for i in range(10): if rpc_call(...) is not None: break ... else: return
Recheck ==
    /\ pc = "recheck"
    /\ i < RecheckPolls
    /\ \E e \in EnvOutcomes("getblockcount", TRUE) :
          LET r == rpc_call(e.o) IN
          /\ Called(e, r)
          /\ IF r.raised
             THEN /\ pending' = Exc(r.exc)
                  /\ pc' = LeaveTry(Exc(r.exc))
                  /\ UNCHANGED <<i, order>>
             ELSE IF PollReady(r.val)
             THEN /\ pc' = FirstPc("transaction_validation")
                  /\ order' = Append(order, "transaction_validation")
                  /\ i' = 0
                  /\ UNCHANGED pending
             ELSE IF i + 1 = RecheckPolls
             THEN /\ pending' = ErrorObj("bitcoind not responding after start")
                  /\ pc' = LeaveTry(ErrorObj("bitcoind not responding after start"))
                  /\ UNCHANGED <<i, order>>
             ELSE /\ i' = i + 1
                  /\ UNCHANGED <<pc, pending, order>>
    /\ UNCHANGED <<bitcoindOk, cliOk, slow, regtestDir>>
    /\ UNCHANGED <<times, loc, benchmarks, ret>>
    /\ UNCHANGED <<startObs, stopObs, collected, loopObs>>
    /\ UNCHANGED runVars
    /\ UNCHANGED <<cmpVars, cmdVars, expVars>>

\* what every workload step leaves alone
WlFrame ==
    /\ UNCHANGED <<bitcoindOk, cliOk, regtestDir>>
    /\ UNCHANGED <<startObs, stopObs>>
    /\ UNCHANGED runVars
    /\ UNCHANGED <<cmpVars, cmdVars, expVars>>

----------------------------------------------------------------------------
(* the workloads *)

\* str(address) is an address the daemon accepts
IsAddress(v) == v.t = "str" /\ v.v # ""

\* end of one loop turn with samples t: next turn, or the workload's return
Advance(w, t) ==
    IF i + 1 = Repeats(w)
    THEN WlReturn(w, Summarize(w, t), t)
    ELSE /\ i' = i + 1
         /\ times' = t
         /\ UNCHANGED <<pc, loc, benchmarks, collected, order, pending, ret>>

\* the test that decides whether a timed call's result counts as a sample
Usable(w, v) ==
    CASE w = "transaction_validation" -> Truthy(v) /\ PyLen(v) > 0  \* result and len(result) > 0
      [] w = "block_validation"       -> Truthy(v)                  \* if result:
      [] w = "hash_operations"        -> Truthy(v)                  \* if hash_result:

\* that test raises TypeError: len() of a non-zero number
TestRaises(w, v) == w = "transaction_validation" /\ Truthy(v) /\ NoLen(v)

LoopTurnEndsOnFailure(w, method, argsOk) ==
    \E e \in EnvOutcomes(method, argsOk) :
       LET r == rpc_call(e.o) IN
       /\ Called(e, r)
       /\ iters' = [iters EXCEPT ![w] = @ + 1]
       /\ IF r.raised
          THEN WlRaise(r.exc) /\ UNCHANGED <<usable, slow>>
          ELSE IF TestRaises(w, r.val)
          THEN WlRaise("TypeError") /\ UNCHANGED <<usable, slow>>
          ELSE IF Usable(w, r.val)
          THEN \E ms \in Elapsed :
                  /\ slow' = IF ms = FastMs THEN slow ELSE slow + 1
                  /\ usable' = [usable EXCEPT ![w] = @ + 1]
                  /\ Advance(w, Push(times, ms))
          ELSE WlReturn(w, Summarize(w, times), times) /\ UNCHANGED <<usable, slow>>
       /\ WlFrame

\* one turn of a timed loop: start = perf_counter(); rpc_call; end = perf_counter();
\* if <test>: times.append((end - start) * 1000)
LoopTurn(w, method, argsOk) ==
    \E e \in EnvOutcomes(method, argsOk) :
       LET r == rpc_call(e.o) IN
       /\ Called(e, r)
       /\ iters' = [iters EXCEPT ![w] = @ + 1]
       /\ IF r.raised
          THEN WlRaise(r.exc) /\ UNCHANGED <<usable, slow>>
          ELSE IF TestRaises(w, r.val)
          THEN WlRaise("TypeError") /\ UNCHANGED <<usable, slow>>
          ELSE IF Usable(w, r.val)
          THEN \E ms \in Elapsed :
                  /\ slow' = IF ms = FastMs THEN slow ELSE slow + 1
                  /\ usable' = [usable EXCEPT ![w] = @ + 1]
                  /\ Advance(w, Push(times, ms))
          ELSE Advance(w, times) /\ UNCHANGED <<usable, slow>>
       /\ WlFrame

\* what a setup call does besides its result: the call itself, nothing timed
SetupCall(e, r) ==
    /\ Called(e, r)
    /\ UNCHANGED <<slow, loopObs>>
    /\ WlFrame

(* benchmark_transaction_validation *)

\* the inner call of: rpc_call("generatetoaddress", 101, rpc_call("getnewaddress"))
TxAddr0 ==
    /\ pc = "tx_addr0"
    /\ \E e \in EnvOutcomes("getnewaddress", TRUE) :
          LET r == rpc_call(e.o) IN
          /\ SetupCall(e, r)
          /\ IF r.raised THEN WlRaise(r.exc)
             ELSE WlStep("tx_gen", [loc EXCEPT !.address = r.val])

TxGenerate ==
    /\ pc = "tx_gen"
    /\ \E e \in EnvOutcomes("generatetoaddress", IsAddress(loc.address)) :
          LET r == rpc_call(e.o) IN
          /\ SetupCall(e, r)
          /\ IF r.raised THEN WlRaise(r.exc)
             ELSE IF ~Truthy(r.val)
             THEN WlReturn("transaction_validation", Err("Failed to generate blocks"), NoTimes)
             ELSE WlStep("tx_listunspent", loc)

TxListUnspent ==
    /\ pc = "tx_listunspent"
    /\ \E e \in EnvOutcomes("listunspent", TRUE) :
          LET r == rpc_call(e.o) IN
          /\ SetupCall(e, r)
          /\ IF r.raised THEN WlRaise(r.exc)
             ELSE IF ~Truthy(r.val)
             THEN WlReturn("transaction_validation", Err("No UTXOs available"), NoTimes)
             ELSE IF NoLen(r.val) THEN WlRaise("TypeError")          \* len(utxos)
             ELSE IF PyLen(r.val) = 0
             THEN WlReturn("transaction_validation", Err("No UTXOs available"), NoTimes)
             ELSE WlStep("tx_addr", [loc EXCEPT !.utxos = r.val])

\* address = rpc_call("getnewaddress"); utxo = utxos[0]; then the arguments of
\* createrawtransaction: utxo["txid"], utxo["vout"], {address: 0.001}
TxAddr ==
    /\ pc = "tx_addr"
    /\ \E e \in EnvOutcomes("getnewaddress", TRUE) :
          LET r == rpc_call(e.o)
              u == loc.utxos
          IN
          /\ SetupCall(e, r)
          /\ IF r.raised THEN WlRaise(r.exc)
             ELSE IF u.t = "dict" THEN WlRaise("KeyError")            \* utxos[0]
             ELSE IF u.t = "str" THEN WlRaise("TypeError")            \* "x"["txid"]
             ELSE IF u.v[1].t # "dict" THEN WlRaise("TypeError")
             ELSE IF ~({"txid", "vout"} \subseteq u.v[1].v) THEN WlRaise("KeyError")
             ELSE IF r.val.t \in {"list", "dict"} THEN WlRaise("TypeError")  \* unhashable key
             ELSE WlStep("tx_create", [loc EXCEPT !.address = r.val])

TxCreate ==
    /\ pc = "tx_create"
    /\ \E e \in EnvOutcomes("createrawtransaction", IsAddress(loc.address)) :
          LET r == rpc_call(e.o) IN
          /\ SetupCall(e, r)
          /\ IF r.raised THEN WlRaise(r.exc)
             ELSE IF ~Truthy(r.val)
             THEN WlReturn("transaction_validation", Err("Failed to create raw transaction"), NoTimes)
             ELSE WlStep("tx_sign", [loc EXCEPT !.raw_tx = r.val])

TxSign ==
    /\ pc = "tx_sign"
    /\ \E e \in EnvOutcomes("signrawtransactionwithwallet", loc.raw_tx.t = "str") :
          LET r == rpc_call(e.o) IN
          /\ SetupCall(e, r)
          /\ IF r.raised THEN WlRaise(r.exc)
             ELSE IF ~Truthy(r.val)
             THEN WlReturn("transaction_validation", Err("Failed to sign transaction"), NoTimes)
             ELSE IF r.val.t = "num" THEN WlRaise("TypeError")       \* "hex" not in 5
             ELSE IF ~HasHex(r.val)
             THEN WlReturn("transaction_validation", Err("Failed to sign transaction"), NoTimes)
             ELSE WlStep("tx_loop", [loc EXCEPT !.signed_tx = r.val])

TxLoop ==
    /\ pc = "tx_loop"
    /\ IF loc.signed_tx.t # "dict"
       THEN \* signed_tx["hex"] on a list or a string
            /\ WlRaise("TypeError")
            /\ UNCHANGED <<daemon, abnormal, slow, lastRpc, loopObs>>
            /\ WlFrame
       ELSE LoopTurn("transaction_validation", "testmempoolaccept", TRUE)

(* benchmark_block_validation *)

BlAddr ==
    /\ pc = "bl_addr"
    /\ \E e \in EnvOutcomes("getnewaddress", TRUE) :
          LET r == rpc_call(e.o) IN
          /\ SetupCall(e, r)
          /\ IF r.raised THEN WlRaise(r.exc)
             ELSE WlStep("bl_loop", [loc EXCEPT !.address = r.val])

BlLoop ==
    /\ pc = "bl_loop"
    /\ LoopTurn("block_validation", "generatetoaddress", IsAddress(loc.address))

(* benchmark_hash_operations *)

HsCount ==
    /\ pc = "hs_count"
    /\ \E e \in EnvOutcomes("getblockcount", TRUE) :
          LET r == rpc_call(e.o) IN
          /\ SetupCall(e, r)
          /\ IF r.raised THEN WlRaise(r.exc)
             ELSE IF IsNone(r.val) THEN WlStep("hs_addr", loc)
             ELSE IF r.val.t # "num" THEN WlRaise("TypeError")       \* "x" < 100
             ELSE IF r.val.v < MinHeight THEN WlStep("hs_addr", loc)
             ELSE WlStep("hs_loop", loc)

HsAddr ==
    /\ pc = "hs_addr"
    /\ \E e \in EnvOutcomes("getnewaddress", TRUE) :
          LET r == rpc_call(e.o) IN
          /\ SetupCall(e, r)
          /\ IF r.raised THEN WlRaise(r.exc)
             ELSE WlStep("hs_gen", [loc EXCEPT !.address = r.val])

\* the result of this call is not looked at
HsGenerate ==
    /\ pc = "hs_gen"
    /\ \E e \in EnvOutcomes("generatetoaddress", IsAddress(loc.address)) :
          LET r == rpc_call(e.o) IN
          /\ SetupCall(e, r)
          /\ IF r.raised THEN WlRaise(r.exc) ELSE WlStep("hs_loop", loc)

HsLoop ==
    /\ pc = "hs_loop"
    /\ LoopTurn("hash_operations", "getblockhash", TRUE)

----------------------------------------------------------------------------
(* the finally block of run_all_benchmarks, and its return *)

\* no stop command was run
NoCmd == [kind |-> "none", rc |-> 0, out |-> ""]

\* Every way `bitcoin-cli stop` can end, with the daemon state and abnormal count
\* after it.  A live daemon shuts down; or, within MaxAbnormal, it refuses (still
\* warming up), is still busy after 10 s, dies or hangs at this call.  A hung daemon
\* times out; a daemon that is gone (or was never there) makes the client exit
\* non-zero.  Without a runnable client no command is run.
StopOutcomes ==
    IF ~cliOk THEN {[o |-> NoCmd, d |-> daemon, ab |-> abnormal]}
    ELSE CASE daemon = "up" ->
                {[o |-> Exit(0, "Bitcoin Core stopping\n"), d |-> "stopped", ab |-> abnormal]}
                \cup (IF abnormal < MaxAbnormal
                      THEN {[o |-> Exit(1, ""), d |-> "up",   ab |-> abnormal + 1],
                            [o |-> Timeout,     d |-> "up",   ab |-> abnormal + 1],
                            [o |-> Exit(1, ""), d |-> "dead", ab |-> abnormal + 1],
                            [o |-> Timeout,     d |-> "hung", ab |-> abnormal + 1]}
                      ELSE {})
           [] daemon = "hung" -> {[o |-> Timeout, d |-> "hung", ab |-> abnormal]}
           [] OTHER -> {[o |-> Exit(1, ""), d |-> daemon, ab |-> abnormal]}

stop_bitcoind_unguarded(o) ==
    CASE o.kind = "none"    -> Returned(None)
      [] o.kind = "timeout" -> Raised("TimeoutExpired")
      [] o.kind = "exit"    -> IF o.rc = 0 THEN Returned(None)
                               ELSE Raised("CalledProcessError")

\* stop_bitcoind given what the stop command did (none: the client is not runnable
\* and no command was run): CalledProcessError and TimeoutExpired are swallowed
stop_bitcoind(o) ==
    CASE o.kind = "none"    -> Returned(None)
      [] o.kind = "timeout" -> Returned(None)
      [] o.kind = "exit"    -> Returned(None)

\* one invocation of stop_bitcoind: its effect on the daemon and what is recorded
StopCall(e) ==
    /\ stopInvoked' = stopInvoked + 1
    /\ stopSent' = IF e.o.kind = "none" THEN stopSent ELSE stopSent + 1
    /\ daemon' = e.d
    /\ abnormal' = e.ab
    /\ stopLog' = Append(stopLog, [o |-> e.o, raised |-> stop_bitcoind(e.o).raised])

\* self.stop_bitcoind() in the finally block; an exception out of it would leave
\* the finally block at once, past the removal of the directory
FinallyStop ==
    /\ pc = "finally_stop"
    /\ \E e \in StopOutcomes :
          /\ StopCall(e)
          /\ IF stop_bitcoind(e.o).raised
             THEN /\ pc' = "returned"
                  /\ ret' = Exc(stop_bitcoind(e.o).exc)
                  /\ MainTail(Exc(stop_bitcoind(e.o).exc))
             ELSE /\ pc' = "finally_rm"
                  /\ UNCHANGED <<ret, runExit, runReport>>
    /\ UNCHANGED <<bitcoindOk, cliOk, slow, regtestDir>>
    /\ UNCHANGED <<i, times, loc, benchmarks, pending>>
    /\ UNCHANGED <<startObs, rmCalls, order, collected, loopObs, lastRpc>>
    /\ UNCHANGED startDirOps
    /\ UNCHANGED <<cmpVars, cmdVars, expVars>>

\* if self.regtest_dir.exists(): shutil.rmtree(self.regtest_dir); then the pending
\* return or exception goes to the caller
FinallyCleanup ==
    /\ pc = "finally_rm"
    /\ IF regtestDir # "absent"
       THEN regtestDir' = "absent" /\ rmCalls' = rmCalls + 1
       ELSE UNCHANGED <<regtestDir, rmCalls>>
    /\ pc' = "returned"
    /\ ret' = pending
    /\ MainTail(pending)
    /\ UNCHANGED <<bitcoindOk, cliOk, daemon, abnormal, slow>>
    /\ UNCHANGED <<i, times, loc, benchmarks, pending>>
    /\ UNCHANGED <<startObs, stopInvoked, stopSent, order, collected, loopObs, lastRpc>>
    /\ UNCHANGED <<stopLog, startDirOps>>
    /\ UNCHANGED <<cmpVars, cmdVars, expVars>>

----------------------------------------------------------------------------
(* One run of run_all_benchmarks *)

NoRpc == [o |-> [kind |-> "none", rc |-> 0, out |-> ""], r |-> Returned(None)]

\* the run command has not ended; nothing was stopped or written
RunFresh ==
    /\ runExit = "running" /\ runReport = FALSE
    /\ stopLog = <<>> /\ startDirOps = FALSE

\* the compare pipeline does not run in this specification
CompareOff ==
    /\ cpc = "off"
    /\ criterionFile = [kind |-> "missing"] /\ coreFile = [kind |-> "missing"]
    /\ btdcoded = <<>> /\ core = <<>> /\ comparison = <<>>
    /\ cmpDirs = "both" /\ cmpExit = "running" /\ cmpReport = FALSE

\* the export command does not run in this specification
ExportOff ==
    /\ epc = "off"
    /\ exportFile = [kind |-> "missing"]
    /\ exportResults = <<>> /\ exportQueue = <<>> /\ exportOutput = <<>>
    /\ exportExit = "running" /\ exportReport = FALSE

Init ==
    /\ bitcoindOk \in BOOLEAN
    /\ cliOk \in BOOLEAN
    /\ regtestDir \in {"absent", "stale"}
    /\ daemon = "none"
    /\ abnormal = 0
    /\ slow = 0
    /\ pc = "start"
    /\ i = 0
    /\ times = NoTimes
    /\ loc = NoLoc
    /\ benchmarks = <<>>
    /\ pending = Nothing
    /\ ret = Nothing
    /\ startResult = "none"
    /\ polls = 0 /\ pollsNone = 0 /\ sleeps = 0
    /\ stopInvoked = 0 /\ stopSent = 0 /\ rmCalls = 0
    /\ order = <<>>
    /\ collected = [w \in Workloads |-> 0]
    /\ iters = [w \in Workloads |-> 0]
    /\ usable = [w \in Workloads |-> 0]
    /\ lastRpc = NoRpc
    /\ RunFresh
    /\ CompareOff
    /\ ExportOff

Next ==
    \/ StartBitcoindCheck
    \/ StartBitcoindLaunch
    \/ StartBitcoindPoll
    \/ Recheck
    \/ TxAddr0 \/ TxGenerate \/ TxListUnspent \/ TxAddr \/ TxCreate \/ TxSign \/ TxLoop
    \/ BlAddr \/ BlLoop
    \/ HsCount \/ HsAddr \/ HsGenerate \/ HsLoop
    \/ FinallyStop
    \/ FinallyCleanup

Spec == Init /\ [][Next]_vars

----------------------------------------------------------------------------
(* stop_bitcoind invoked again and again, in any process state *)

\* invocations of stop_bitcoind in one behaviour
MaxStops == 7

DaemonStates == {"none", "up", "hung", "dead", "stopped"}

InitStop ==
    /\ cliOk \in BOOLEAN
    /\ daemon \in DaemonStates
    /\ bitcoindOk = TRUE /\ regtestDir = "absent"
    /\ abnormal = 0 /\ slow = 0
    /\ pc = "off" /\ i = 0 /\ times = NoTimes /\ loc = NoLoc
    /\ benchmarks = <<>> /\ pending = Nothing /\ ret = Nothing
    /\ startResult = "none"
    /\ polls = 0 /\ pollsNone = 0 /\ sleeps = 0
    /\ stopInvoked = 0 /\ stopSent = 0 /\ rmCalls = 0
    /\ order = <<>>
    /\ collected = [w \in Workloads |-> 0]
    /\ iters = [w \in Workloads |-> 0]
    /\ usable = [w \in Workloads |-> 0]
    /\ lastRpc = NoRpc
    /\ RunFresh
    /\ CompareOff
    /\ ExportOff

\* benchmark.stop_bitcoind()
StopBitcoind ==
    /\ pc = "off"
    /\ Len(stopLog) < MaxStops
    /\ ~(\E k \in 1..Len(stopLog) : stopLog[k].raised)
    /\ \E e \in StopOutcomes : StopCall(e)
    /\ UNCHANGED <<bitcoindOk, cliOk, slow, regtestDir>>
    /\ UNCHANGED progVars
    /\ UNCHANGED <<startObs, rmCalls, order, collected, loopObs, lastRpc>>
    /\ UNCHANGED <<runExit, runReport, startDirOps>>
    /\ UNCHANGED <<cmpVars, cmdVars, expVars>>

NextStop == StopBitcoind

SpecStop == InitStop /\ [][NextStop]_vars

----------------------------------------------------------------------------
(* Properties of one run of run_all_benchmarks *)

FixedOrder == <<"transaction_validation", "block_validation", "hash_operations">>

SameValue(a, b) == a.t = b.t /\ a.v = b.v

\* C1: once start_bitcoind reported ready, however the try block was left (all three
\* workloads done, an exception, the re-check failing 10 times), stop_bitcoind has
\* been invoked and the regtest directory removed when control is back at the caller.
C1_CleanupOnEveryExit ==
    (pc = "returned" /\ startResult = "ready") =>
        /\ ret.kind \in {"results", "error", "raise"}
        /\ stopInvoked = 1
        /\ rmCalls = 1
        /\ regtestDir = "absent"

\* a workload raised partway through, and cleanup ran before the exception left
C1_Witness ==
    /\ pc = "returned" /\ startResult = "ready"
    /\ ret.kind = "raise" /\ ret.info = "TypeError"
    /\ Len(order) = 3
    /\ DOMAIN benchmarks = {"transaction_validation", "block_validation"}
    /\ stopInvoked = 1 /\ regtestDir = "absent"

\* C2: when start fails as Unresponsive (launched, directory recreated, no poll
\* answered), the stop call is sent and the directory removed before
\* run_all_benchmarks returns its error.
C2_CleanupAfterUnresponsive ==
    (pc = "returned" /\ startResult = "unresponsive") =>
        /\ stopInvoked >= 1
        /\ regtestDir = "absent"

\* C6: a workload that collected zero samples returned an error object; a returned
\* statistic has between 1 and the workload's repeat count samples.
C6_NoZeroSampleStat ==
    \A w \in DOMAIN benchmarks :
        LET r == benchmarks[w] IN
        /\ IsError(r) # IsStat(r)
        /\ collected[w] = 0 => IsError(r)
        /\ IsStat(r) => /\ r.samples >= 1
                        /\ r.samples <= Repeats(w)
                        /\ r.samples = collected[w]

\* a timed loop ran all its turns, kept nothing, and the workload returned an error
C6_Witness ==
    \E w \in DOMAIN benchmarks :
        /\ iters[w] = Repeats(w)
        /\ collected[w] = 0
        /\ IsError(benchmarks[w])

C8_RpcCallNeverFailsCaller ==
    LET o == lastRpc.o
        r == lastRpc.r
    IN  /\ (o.kind = "timeout" \/ (o.kind = "exit" /\ o.rc # 0)) =>
              (~r.raised /\ IsNone(r.val))
        /\ (o.kind = "exit" /\ o.rc = 0) =>
              /\ ~r.raised
              /\ o.out \in NotJson =>
                    (r.val.t = "str" /\ (r.val.v = "" \/ r.val.v \notin Stdouts))
              /\ o.out \notin NotJson => r.val.t # "str"
              /\ o.out = "101\n" => SameValue(r.val, Num(101))
              /\ o.out = "bcrt1q\n" => SameValue(r.val, Str("bcrt1q"))
              /\ o.out = "[]\n" => (r.val.t = "list" /\ Len(r.val.v) = 0)

\* a call timed out in the middle of a timed loop and the caller got None
C8_Witness ==
    /\ lastRpc.o.kind = "timeout"
    /\ ~lastRpc.r.raised /\ IsNone(lastRpc.r.val)
    /\ pc = "tx_loop" /\ i > 0

\* C9: after a successful launch start_bitcoind sleeps 1 s before each poll, issues
\* at most 20 polls, reports ready at the first poll that returns a value and polls
\* no further, reports unresponsive exactly when all 20 polls returned None, and
\* reports launch failure without any poll; the loop cannot go past 20 turns.
C9_PollingContract ==
    /\ polls <= StartPolls
    /\ sleeps = polls
    /\ startResult = "ready" => (polls >= 1 /\ pollsNone = polls - 1)
    /\ startResult = "unresponsive" <=> pollsNone = StartPolls
    /\ startResult \in {"launch_failed", "binary_not_found"} => polls = 0
    /\ pc = "poll" => (polls < StartPolls /\ pollsNone = polls /\ i = polls)
    /\ pc \in {"start", "launch", "poll"} <=> startResult = "none"

\* the first poll returned None, the second a value: ready after two polls
C9_Witness ==
    /\ startResult = "ready"
    /\ polls = 2 /\ pollsNone = 1 /\ sleeps = 2

----------------------------------------------------------------------------
(* compare_benchmarks.py: the input files *)

\* benchmark names compare_common_metrics looks for in consensus_proof.json
CriterionNames == {"check_transaction", "sha256_1kb", "connect_block",
                   "connect_block_multi_tx"}

\* entries of a Criterion report (times in nanoseconds)
EntryFull ==
    [mean |-> [point_estimate |-> 2000000,
               confidence_interval |-> [lower_bound |-> 1900000,
                                        upper_bound |-> 2100000]],
     min |-> 1000000, max |-> 3000000,
     median |-> [point_estimate |-> 2000000],
     sample_count |-> 100]
EntryMeanOnly == [mean |-> [point_estimate |-> 4000000]]
EntrySlow     == [mean |-> [point_estimate |-> 8000000], min |-> 7000000, max |-> 9000000]
EntryZero     == [mean |-> [point_estimate |-> 0], sample_count |-> 0]
EntryNoMean   == [min |-> 5, max |-> 6]
EntryNoPoint  == [mean |-> [confidence_interval |-> [lower_bound |-> 1, upper_bound |-> 2]]]

\* a JSON value that is no object (a number, null) where an object is expected
Scalar == [scalar |-> TRUE]
IsScalar(x) == "scalar" \in DOMAIN x

\* an entry whose "mean" is a number instead of an object
EntryMeanScalar == [mean |-> Scalar]

EntryKinds == {EntryFull, EntryMeanOnly, EntrySlow, EntryZero, EntryNoMean, EntryNoPoint,
               EntryMeanScalar}

\* a file that is absent, that cannot be read as JSON, or that holds a JSON object
Missing    == [kind |-> "missing"]
Unreadable == [kind |-> "unreadable"]
JsonNull   == [kind |-> "null"]          \* the file holds the JSON text null
JsonObject(d) == [kind |-> "dict", data |-> d]

CriterionFiles ==
    {Missing, Unreadable}
    \cup {JsonObject(d) : d \in UNION {[D -> EntryKinds] : D \in SUBSET CriterionNames}}

\* what benchmark_bitcoin_core.py writes for one workload: a statistic or an error
CoreEntries == {Reduce([len |-> 10, sum |-> 40, min |-> 3, max |-> 5]),
                Err("No valid measurements")}

CoreFiles ==
    {Missing, Unreadable, JsonNull, JsonObject([error |-> "Failed to start bitcoind"])}
    \cup {JsonObject([system |-> "Bitcoin Core", benchmarks |-> b]) :
             b \in UNION {[D -> CoreEntries] : D \in SUBSET Workloads}}

----------------------------------------------------------------------------
(* compare_benchmarks.py: parse_criterion_results *)

Opt(c, r) == IF c THEN r ELSE <<>>

\* Python's None in a numeric field
NoneNum == [none |-> TRUE]

\* mean.get('confidence_interval', {}).get(bound)
Bound(mean, bound) ==
    IF "confidence_interval" \in DOMAIN mean /\ bound \in DOMAIN mean.confidence_interval
    THEN mean.confidence_interval[bound]
    ELSE NoneNum

\* 'point_estimate' in mean raises TypeError when mean is a number
EntryRaises(bd) == "mean" \in DOMAIN bd /\ IsScalar(bd.mean)

HasPointEstimate(bd) == "mean" \in DOMAIN bd /\ "point_estimate" \in DOMAIN bd.mean

\* the stats dict built for one entry that has mean.point_estimate
ParseEntry(bd) ==
    LET mean    == bd.mean
        mean_ns == mean.point_estimate
    IN  [mean_ns |-> mean_ns,
         mean_ms |-> Rat(mean_ns, NsPerMs),
         lower_bound_ns |-> Bound(mean, "lower_bound"),
         upper_bound_ns |-> Bound(mean, "upper_bound")]
        @@ Opt("min" \in DOMAIN bd,
               [min_ns |-> bd.min, min_ms |-> Rat(bd.min, NsPerMs)])
        @@ Opt("max" \in DOMAIN bd,
               [max_ns |-> bd.max, max_ms |-> Rat(bd.max, NsPerMs)])
        @@ Opt("median" \in DOMAIN bd /\ "point_estimate" \in DOMAIN bd.median,
               [median_ns |-> bd.median.point_estimate,
                median_ms |-> Rat(bd.median.point_estimate, NsPerMs)])
        @@ Opt(mean_ns > 0,
               [throughput_ops_per_sec |-> Rat(NsPerSec, mean_ns)])
        @@ Opt("sample_count" \in DOMAIN bd, [samples |-> bd.sample_count])

\* {} when the file cannot be read or any entry raises (except Exception: return {});
\* else one stats dict per entry with a point estimate
parse_criterion_results(file) ==
    IF file.kind # "dict" THEN <<>>
    ELSE IF \E k \in DOMAIN file.data : EntryRaises(file.data[k]) THEN <<>>
    ELSE [n \in {k \in DOMAIN file.data : HasPointEstimate(file.data[k])} |->
             ParseEntry(file.data[n])]

\* {} when the file cannot be read (except Exception: return {}); else whatever
\* json.load gave: the object, or None for the JSON text null
load_benchmark_results(file) ==
    CASE file.kind = "dict" -> file.data
      [] file.kind = "null" -> NoneNum
      [] OTHER              -> <<>>

----------------------------------------------------------------------------
(* compare_benchmarks.py: compare_common_metrics *)

\* stat.get("mean_ms", stat.get("mean_ns", 0) / 1_000_000)
BtdcodedMs(stat) ==
    IF "mean_ms" \in DOMAIN stat THEN stat.mean_ms
    ELSE IF "mean_ns" \in DOMAIN stat THEN Rat(stat.mean_ns, NsPerMs)
    ELSE Zero

\* stat.get("throughput_ops_per_sec", 0)
BtdcodedThroughput(stat) ==
    IF "throughput_ops_per_sec" \in DOMAIN stat THEN stat.throughput_ops_per_sec ELSE Zero

FullRecordInvertedRatio(stat, coreStat) ==
    LET btdcoded_ms == BtdcodedMs(stat)
        core_ms     == coreStat.mean_ms
    IN  [btdcoded_ms |-> btdcoded_ms,
         core_ms     |-> core_ms,
         ratio       |-> IF RatPos(btdcoded_ms) THEN RatDiv(btdcoded_ms, core_ms) ELSE Zero,
         faster      |-> IF RatLess(btdcoded_ms, core_ms) THEN "BTCDecoded" ELSE "Bitcoin Core",
         btdcoded_throughput |-> BtdcodedThroughput(stat)]

\* the record written when both systems have a mean for the operation
FullRecord(stat, coreStat) ==
    LET btdcoded_ms == BtdcodedMs(stat)
        core_ms     == coreStat.mean_ms
    IN  [btdcoded_ms |-> btdcoded_ms,
         core_ms     |-> core_ms,
         ratio       |-> IF RatPos(btdcoded_ms) THEN RatDiv(core_ms, btdcoded_ms) ELSE Zero,
         faster      |-> IF RatLess(btdcoded_ms, core_ms) THEN "BTCDecoded" ELSE "Bitcoin Core",
         btdcoded_throughput |-> BtdcodedThroughput(stat)]

\* "benchmarks" in core and key in core["benchmarks"]
CoreHas(c, key) == "benchmarks" \in DOMAIN c /\ key \in DOMAIN c.benchmarks

\* a BTCDecoded benchmark is there to compare
BtdcodedHas(b, name) ==
    "consensus_proof" \in DOMAIN b /\ name \in DOMAIN b.consensus_proof

TransactionComparison(b, c) ==
    IF BtdcodedHas(b, "check_transaction")
       /\ CoreHas(c, "transaction_validation")
       /\ "mean_ms" \in DOMAIN c.benchmarks.transaction_validation
    THEN "transaction_validation" :>
            FullRecord(b.consensus_proof.check_transaction,
                       c.benchmarks.transaction_validation)
    ELSE <<>>

HashComparison(b, c) ==
    IF BtdcodedHas(b, "sha256_1kb")
       /\ CoreHas(c, "hash_operations")
       /\ "mean_ms" \in DOMAIN c.benchmarks.hash_operations
    THEN "hash_operations" :>
            (FullRecord(b.consensus_proof.sha256_1kb, c.benchmarks.hash_operations)
             @@ [note |-> "Core measures cached getblockhash (database lookup), BTCDecoded measures actual SHA256 computation"])
    ELSE <<>>

\* f"block_validation_{comparison_key}"
BlockComparisonKey(name) ==
    CASE name = "connect_block"          -> "block_validation_connect_block"
      [] name = "connect_block_multi_tx" -> "block_validation_connect_block_multi_tx"

BlockComparison(b, c, name) ==
    IF ~BtdcodedHas(b, name) THEN <<>>
    ELSE IF CoreHas(c, "block_validation")
    THEN IF "mean_ms" \in DOMAIN c.benchmarks.block_validation
         THEN BlockComparisonKey(name) :>
                 FullRecord(b.consensus_proof[name], c.benchmarks.block_validation)
         ELSE <<>>
    ELSE BlockComparisonKey(name) :>
            [btdcoded_ms |-> BtdcodedMs(b.consensus_proof[name]),
             btdcoded_throughput |-> BtdcodedThroughput(b.consensus_proof[name]),
             note |-> "Core benchmark not available for comparison"]

\* "benchmarks" in core raises TypeError when core is None; the test is reached
\* once one of the looked-for BTCDecoded benchmarks is there
CompareRaises(b, c) ==
    /\ "none" \in DOMAIN c
    /\ \E name \in CriterionNames : BtdcodedHas(b, name)

compare_common_metrics(b, c) ==
    TransactionComparison(b, c)
    @@ HashComparison(b, c)
    @@ BlockComparison(b, c, "connect_block")
    @@ BlockComparison(b, c, "connect_block_multi_tx")

----------------------------------------------------------------------------
(* compare_benchmarks: parse, load, compare *)

\* run_all_benchmarks does not run in this specification
BenchmarkOff ==
    /\ bitcoindOk = FALSE /\ cliOk = FALSE /\ regtestDir = "absent"
    /\ daemon = "none" /\ abnormal = 0 /\ slow = 0
    /\ pc = "off" /\ i = 0 /\ times = NoTimes /\ loc = NoLoc
    /\ benchmarks = <<>> /\ pending = Nothing /\ ret = Nothing
    /\ startResult = "none"
    /\ polls = 0 /\ pollsNone = 0 /\ sleeps = 0
    /\ stopInvoked = 0 /\ stopSent = 0 /\ rmCalls = 0
    /\ order = <<>>
    /\ collected = [w \in Workloads |-> 0]
    /\ iters = [w \in Workloads |-> 0]
    /\ usable = [w \in Workloads |-> 0]
    /\ lastRpc = NoRpc
    /\ RunFresh

\* the directories the compare command is given
CompareDirs == {"both", "no_btdcoded", "no_core"}

InitCompare ==
    /\ cmpDirs \in CompareDirs
    /\ criterionFile \in IF cmpDirs = "no_btdcoded" THEN {Missing} ELSE CriterionFiles
    /\ coreFile \in IF cmpDirs = "no_core" THEN {Missing} ELSE CoreFiles
    /\ cpc = "main"
    /\ btdcoded = <<>> /\ core = <<>> /\ comparison = <<>>
    /\ cmpExit = "running" /\ cmpReport = FALSE
    /\ BenchmarkOff
    /\ ExportOff

\* main: both directories must exist, else sys.exit(1)
CompareMain ==
    /\ cpc = "main"
    /\ IF cmpDirs = "both"
       THEN cpc' = "parse" /\ UNCHANGED cmpExit
       ELSE cpc' = "exited" /\ cmpExit' = "1"
    /\ UNCHANGED <<criterionFile, coreFile, btdcoded, core, comparison, cmpDirs, cmpReport>>
    /\ UNCHANGED <<envVars, progVars, obsVars, runVars, expVars>>

\* the loop over find_benchmark_files(btdcoded_dir)
CompareParse ==
    /\ cpc = "parse"
    /\ btdcoded' = IF criterionFile.kind = "missing" THEN <<>>
                   ELSE "consensus_proof" :> parse_criterion_results(criterionFile)
    /\ cpc' = "load"
    /\ UNCHANGED <<criterionFile, coreFile, core, comparison>>
    /\ UNCHANGED <<envVars, progVars, obsVars, runVars, cmdVars, expVars>>

\* if "bitcoin_core" in core_files: load_benchmark_results(...)
CompareLoad ==
    /\ cpc = "load"
    /\ core' = IF coreFile.kind = "missing" THEN <<>>
               ELSE load_benchmark_results(coreFile)
    /\ cpc' = "compare"
    /\ UNCHANGED <<criterionFile, coreFile, btdcoded, comparison>>
    /\ UNCHANGED <<envVars, progVars, obsVars, runVars, cmdVars, expVars>>

\* comparison["comparison"] = compare_common_metrics(...); a TypeError out of it is
\* caught nowhere
CompareCommon ==
    /\ cpc = "compare"
    /\ IF CompareRaises(btdcoded, core)
       THEN /\ cpc' = "exited"
            /\ cmpExit' = "uncaught"
            /\ UNCHANGED comparison
       ELSE /\ comparison' = compare_common_metrics(btdcoded, core)
            /\ cpc' = "done"
            /\ UNCHANGED cmpExit
    /\ UNCHANGED <<criterionFile, coreFile, btdcoded, core, cmpDirs, cmpReport>>
    /\ UNCHANGED <<envVars, progVars, obsVars, runVars, expVars>>

\* main: json.dump(comparison, f), then the command falls off main
CompareWrite ==
    /\ cpc = "done"
    /\ cmpReport' = TRUE
    /\ cmpExit' = "0"
    /\ cpc' = "exited"
    /\ UNCHANGED <<criterionFile, coreFile, btdcoded, core, comparison, cmpDirs>>
    /\ UNCHANGED <<envVars, progVars, obsVars, runVars, expVars>>

NextCompare == CompareMain \/ CompareParse \/ CompareLoad \/ CompareCommon \/ CompareWrite

SpecCompare == InitCompare /\ [][NextCompare]_vars

----------------------------------------------------------------------------
(* Properties of the comparison *)

\* the operations of system A (BTCDecoded) that reached the comparison
OperationsOfA ==
    IF "consensus_proof" \in DOMAIN btdcoded THEN DOMAIN btdcoded.consensus_proof ELSE {}

\* the key of A's operation in the comparison output
ComparisonKeyOf(name) ==
    CASE name = "check_transaction" -> "transaction_validation"
      [] name = "sha256_1kb"        -> "hash_operations"
      [] name = "connect_block"     -> "block_validation_connect_block"
      [] name = "connect_block_multi_tx" -> "block_validation_connect_block_multi_tx"

\* the key of the counterpart in system B's (Bitcoin Core's) benchmarks
CoreKeyOf(name) ==
    CASE name = "check_transaction" -> "transaction_validation"
      [] name = "sha256_1kb"        -> "hash_operations"
      [] name \in {"connect_block", "connect_block_multi_tx"} -> "block_validation"

\* B has a statistic (an entry with mean_ms) for A's operation
CounterpartFound(name) ==
    /\ CoreHas(core, CoreKeyOf(name))
    /\ "mean_ms" \in DOMAIN core.benchmarks[CoreKeyOf(name)]

\* C3: every operation of A has a comparison record; without a counterpart in B the
\* record carries only A's data and a non-empty note.
C3_RecordForEveryOperationOfA ==
    cpc = "done" =>
        \A name \in OperationsOfA :
            /\ ComparisonKeyOf(name) \in DOMAIN comparison
            /\ ~CounterpartFound(name) =>
                  LET rec == comparison[ComparisonKeyOf(name)] IN
                  /\ "btdcoded_ms" \in DOMAIN rec
                  /\ "core_ms" \notin DOMAIN rec
                  /\ "note" \in DOMAIN rec /\ rec.note # ""

\* C4: with a counterpart found and both means positive, ratio = B.mean_ms / A.mean_ms
\* and faster names A exactly when A.mean_ms < B.mean_ms, else B; A = 2.0 and
\* B = 4.0 give ratio 2.0 and faster A.
C4_RatioAndFaster ==
    cpc = "done" =>
        \A name \in OperationsOfA :
            LET a == btdcoded.consensus_proof[name].mean_ms IN
            (CounterpartFound(name) /\ RatPos(a)
                /\ RatPos(core.benchmarks[CoreKeyOf(name)].mean_ms)) =>
                LET b   == core.benchmarks[CoreKeyOf(name)].mean_ms
                    rec == comparison[ComparisonKeyOf(name)]
                IN  /\ rec.btdcoded_ms = a
                    /\ rec.core_ms = b
                    /\ rec.ratio.den > 0
                    /\ rec.ratio.num * a.num * b.den = b.num * rec.ratio.den * a.den
                    /\ rec.faster = IF a.num * b.den < b.num * a.den
                                    THEN "BTCDecoded" ELSE "Bitcoin Core"
                    /\ (a = Rat(2, 1) /\ b = Rat(4, 1)) =>
                          (rec.ratio = Rat(2, 1) /\ rec.faster = "BTCDecoded")
                    /\ a = b => rec.faster = "Bitcoin Core"

\* A.mean_ms = 2.0 against B.mean_ms = 4.0, and equal means on another operation
C4_Witness ==
    /\ cpc = "done"
    /\ "transaction_validation" \in DOMAIN comparison
    /\ comparison["transaction_validation"].btdcoded_ms = Rat(2, 1)
    /\ comparison["transaction_validation"].core_ms = Rat(4, 1)
    /\ comparison["transaction_validation"].ratio = Rat(2, 1)
    /\ comparison["transaction_validation"].faster = "BTCDecoded"
    /\ "hash_operations" \in DOMAIN comparison
    /\ comparison["hash_operations"].btdcoded_ms = Rat(4, 1)
    /\ comparison["hash_operations"].faster = "Bitcoin Core"

\* C5: a comparison record has ratio and faster only when both means exist and A's
\* mean is positive; otherwise it has neither field.
C5_RatioOnlyWithPositiveMean ==
    cpc = "done" =>
        \A name \in OperationsOfA :
            ComparisonKeyOf(name) \in DOMAIN comparison =>
                LET rec == comparison[ComparisonKeyOf(name)]
                    a   == btdcoded.consensus_proof[name]
                    both == /\ CounterpartFound(name)
                            /\ "mean_ms" \in DOMAIN a
                            /\ RatPos(a.mean_ms)
                IN  /\ "ratio" \in DOMAIN rec => both
                    /\ "faster" \in DOMAIN rec => both

\* C10: every statistic with mean_ms > 0, of either system, carries
\* throughput_ops_per_sec = 1000 / mean_ms; with mean_ms zero or absent it carries
\* no throughput field.
C10_ThroughputOnEveryStat ==
    LET Good(stat) ==
            IF "mean_ms" \in DOMAIN stat /\ RatPos(stat.mean_ms)
            THEN /\ "throughput_ops_per_sec" \in DOMAIN stat
                 /\ stat.throughput_ops_per_sec = RatDiv(Rat(1000, 1), stat.mean_ms)
            ELSE "throughput_ops_per_sec" \notin DOMAIN stat
    IN  /\ \A w \in DOMAIN benchmarks : IsStat(benchmarks[w]) => Good(benchmarks[w])
        /\ \A name \in OperationsOfA : Good(btdcoded.consensus_proof[name])

----------------------------------------------------------------------------
(* export_benchmarks.py: the input file *)

\* native names a statistics report may hold: one in the mapping table, one equal to
\* a canonical key of the table, one unknown to the table
ExportNames == {"check_transaction", "transaction_validation", "my_bench"}

\* the orders in which a JSON object can list the names of S (json.load keeps them)
Orderings(S) ==
    {q \in UNION {[1..n -> S] : n \in 0..Cardinality(S)} :
        \A a, b \in 1..Len(q) : a # b => q[a] # q[b]}

SeqRange(q) == {q[k] : k \in 1..Len(q)}

\* a report: its names in file order and the entry of each
JsonOrdered(q, d) == [kind |-> "dict", order |-> q, data |-> d]

ExportFiles ==
    {Missing, Unreadable}
    \cup UNION {{JsonOrdered(q, d) : d \in [SeqRange(q) -> EntryKinds]} :
                   q \in Orderings(ExportNames)}

----------------------------------------------------------------------------
(* export_benchmarks.py: parse_criterion_results *)

IsNoneNum(x) == "none" \in DOMAIN x

\* the stats dict of one entry: every key is set, None where the entry has no value
ExportParseEntry(bd) ==
    LET mean_ns == bd.mean.point_estimate IN
    [mean_ms |-> Rat(mean_ns, NsPerMs),
     mean_ns |-> mean_ns,
     min_ms  |-> IF "min" \in DOMAIN bd THEN Rat(bd.min, NsPerMs) ELSE NoneNum,
     max_ms  |-> IF "max" \in DOMAIN bd THEN Rat(bd.max, NsPerMs) ELSE NoneNum,
     samples |-> IF "sample_count" \in DOMAIN bd THEN Num(bd.sample_count) ELSE None,
     throughput_ops_per_sec |-> IF mean_ns > 0 THEN Rat(NsPerSec, mean_ns) ELSE NoneNum]

\* an empty dict
NoResults == [keys |-> <<>>, val |-> <<>>]

\* the dict returned (keys in insertion order): {} when the file cannot be read or
\* any entry raises; else one stats dict per entry with a point estimate
export_parse(file) ==
    IF file.kind # "dict" THEN NoResults
    ELSE IF \E k \in DOMAIN file.data : EntryRaises(file.data[k]) THEN NoResults
    ELSE LET Keep(k) == HasPointEstimate(file.data[k])
             keys == SelectSeq(file.order, Keep)
         IN  [keys |-> keys,
              val  |-> [n \in SeqRange(keys) |-> ExportParseEntry(file.data[n])]]

----------------------------------------------------------------------------
(* export_benchmarks.py: export_benchmarks and main *)

benchmark_mapping ==
    ("check_transaction" :> "transaction_validation")
    @@ ("check_transaction_complex" :> "transaction_validation_complex")
    @@ ("sha256_1kb" :> "hash_operations_sha256")
    @@ ("double_sha256_1kb" :> "hash_operations_double_sha256")
    @@ ("connect_block" :> "block_validation")
    @@ ("connect_block_multi_tx" :> "block_validation_multi_tx")

\* benchmark_mapping.get(btdcoded_name, btdcoded_name)
CoreName(btdcoded_name) ==
    IF btdcoded_name \in DOMAIN benchmark_mapping
    THEN benchmark_mapping[btdcoded_name]
    ELSE btdcoded_name

\* core_format: mean_ms, the values that are not None, and the native name
CoreFormat(btdcoded_name, result) ==
    [mean_ms |-> result.mean_ms]
    @@ Opt(~IsNoneNum(result.min_ms), [min_ms |-> result.min_ms])
    @@ Opt(~IsNoneNum(result.max_ms), [max_ms |-> result.max_ms])
    @@ Opt(~IsNone(result.samples), [samples |-> result.samples.v])
    @@ Opt(~IsNoneNum(result.throughput_ops_per_sec),
           [throughput_ops_per_sec |-> result.throughput_ops_per_sec])
    @@ [original_name |-> btdcoded_name]

InitExport ==
    /\ exportFile \in ExportFiles
    /\ epc = "main"
    /\ exportResults = <<>> /\ exportQueue = <<>> /\ exportOutput = <<>>
    /\ exportExit = "running" /\ exportReport = FALSE
    /\ BenchmarkOff
    /\ CompareOff

\* main: if not input_file.exists(): sys.exit(1)
ExportMain ==
    /\ epc = "main"
    /\ IF exportFile.kind = "missing"
       THEN epc' = "exited" /\ exportExit' = "1"
       ELSE epc' = "parse" /\ UNCHANGED exportExit
    /\ UNCHANGED <<exportFile, exportResults, exportQueue, exportOutput, exportReport>>
    /\ UNCHANGED <<envVars, progVars, obsVars, cmpVars, runVars, cmdVars>>

\* results = parse_criterion_results(criterion_file); if not results: sys.exit(1)
ExportParse ==
    /\ epc = "parse"
    /\ LET results == export_parse(exportFile) IN
       IF Len(results.keys) = 0
       THEN /\ epc' = "exited" /\ exportExit' = "1"
            /\ UNCHANGED <<exportResults, exportQueue>>
       ELSE /\ epc' = "loop"
            /\ exportResults' = results.val
            /\ exportQueue' = results.keys
            /\ UNCHANGED exportExit
    /\ UNCHANGED <<exportFile, exportOutput, exportReport>>
    /\ UNCHANGED <<envVars, progVars, obsVars, cmpVars, runVars, cmdVars>>

\* one turn of: for btdcoded_name, result in results.items():
\*     output["benchmarks"][core_name] = core_format
ExportEntry ==
    /\ epc = "loop"
    /\ exportQueue # <<>>
    /\ LET btdcoded_name == Head(exportQueue)
           core_name     == CoreName(btdcoded_name)
       IN  exportOutput' =
              (core_name :> CoreFormat(btdcoded_name, exportResults[btdcoded_name]))
              @@ exportOutput
    /\ exportQueue' = Tail(exportQueue)
    /\ UNCHANGED <<epc, exportFile, exportResults, exportExit, exportReport>>
    /\ UNCHANGED <<envVars, progVars, obsVars, cmpVars, runVars, cmdVars>>

\* json.dump(output, f); the command falls off main
ExportWrite ==
    /\ epc = "loop"
    /\ exportQueue = <<>>
    /\ epc' = "exited"
    /\ exportReport' = TRUE
    /\ exportExit' = "0"
    /\ UNCHANGED <<exportFile, exportResults, exportQueue, exportOutput>>
    /\ UNCHANGED <<envVars, progVars, obsVars, cmpVars, runVars, cmdVars>>

NextExport == ExportMain \/ ExportParse \/ ExportEntry \/ ExportWrite

SpecExport == InitExport /\ [][NextExport]_vars

----------------------------------------------------------------------------
(* Properties of the parsers, the exporter and the comparison records *)

\* the report entry a parsed statistic of the compare pipeline came from
SourceOf(name) == criterionFile.data[name]

\* an optional field of a parsed or exported statistic is there only if the report
\* entry src supplied it (or, for the throughput, allowed deriving it)
OnlySupplied(st, src) ==
    /\ "min_ms" \in DOMAIN st => "min" \in DOMAIN src
    /\ "max_ms" \in DOMAIN st => "max" \in DOMAIN src
    /\ "median_ms" \in DOMAIN st =>
          ("median" \in DOMAIN src /\ "point_estimate" \in DOMAIN src.median)
    /\ "samples" \in DOMAIN st => "sample_count" \in DOMAIN src
    /\ "throughput_ops_per_sec" \in DOMAIN st => src.mean.point_estimate > 0

\* C11: optional fields are omitted, never zero-filled: a parsed statistic, an
\* exported record and a comparison record carry min_ms, max_ms, median_ms, samples
\* and the throughput only if the source entry supplied or allowed deriving them; a
\* source entry with mean 0 never yields a record whose throughput is 0.
C11_OptionalFieldsOmitted ==
    /\ \A name \in OperationsOfA :
          /\ OnlySupplied(btdcoded.consensus_proof[name], SourceOf(name))
          /\ ComparisonKeyOf(name) \in DOMAIN comparison =>
                LET rec == comparison[ComparisonKeyOf(name)] IN
                "btdcoded_throughput" \in DOMAIN rec =>
                    /\ SourceOf(name).mean.point_estimate > 0
                    /\ rec.btdcoded_throughput # Zero
    /\ \A key \in DOMAIN exportOutput :
          OnlySupplied(exportOutput[key], exportFile.data[exportOutput[key].original_name])

\* the entries of a report that have mean.point_estimate
WellFormed(file) == {k \in DOMAIN file.data : HasPointEstimate(file.data[k])}

\* C12: from a report that is a mapping of names to entries, each parser returns
\* exactly the entries that have mean.point_estimate; an entry that lacks it is
\* skipped and never costs the file a well-formed entry.
C12_PartialReportsValid ==
    /\ (cpc \in {"load", "compare", "done"} /\ criterionFile.kind = "dict") =>
          DOMAIN btdcoded.consensus_proof = WellFormed(criterionFile)
    /\ (epc = "loop" /\ exportFile.kind = "dict") =>
          DOMAIN exportResults = WellFormed(exportFile)

\* C13: a statistics report or Reference-System result file that is malformed or
\* unreadable yields an empty result set, and with both directories there the compare
\* command still writes its report and exits with status 0 when an input file is
\* unreadable, malformed or absent.
C13_UnreadableYieldsEmpty ==
    /\ (cpc \in {"load", "compare", "done"} /\ criterionFile.kind # "dict") =>
          ("consensus_proof" \in DOMAIN btdcoded => DOMAIN btdcoded.consensus_proof = {})
    /\ (cpc \in {"compare", "done"} /\ coreFile.kind # "dict") => DOMAIN core = {}
    /\ (cpc = "exited" /\ cmpDirs = "both"
            /\ (criterionFile.kind # "dict" \/ coreFile.kind # "dict")) =>
          (cmpExit = "0" /\ cmpReport)

\* every workload has a statistic in the results the run command got back
MeasurementSucceeded ==
    /\ ret.kind = "results"
    /\ \A w \in Workloads : w \in DOMAIN benchmarks /\ IsStat(benchmarks[w])

\* C14: whenever run_all_benchmarks hands main a result, the run command writes the
\* JSON report, and it exits with status 0 exactly when measurement succeeded: a
\* start failure, an unresponsive daemon and a workload that yielded an error object
\* all exit non-zero.
C14_NonZeroExitOnFailure ==
    (pc = "returned" /\ ret.kind # "raise") =>
        /\ runReport
        /\ runExit \in {"0", "1"}
        /\ runExit = "0" <=> MeasurementSucceeded

\* C15: no command ends by an exception nobody caught: each one ends by exiting with
\* a status, and no exit leaves a launched daemon without a stop call.
C15_NoUnhandledFault ==
    /\ runExit # "uncaught"
    /\ cmpExit # "uncaught"
    /\ exportExit # "uncaught"

\* C16: in the export that was written, every native name the parser returned is
\* found under its canonical key (its table entry, or the name itself when the table
\* has none), and the record there carries that name's mean_ms and has original_name
\* equal to the native name.
C16_MappingTotal ==
    (epc = "exited" /\ exportExit = "0") =>
        \A btdcoded_name \in DOMAIN exportResults :
            /\ CoreName(btdcoded_name) \in DOMAIN exportOutput
            /\ LET rec == exportOutput[CoreName(btdcoded_name)] IN
               /\ "mean_ms" \in DOMAIN rec
               /\ rec.mean_ms = exportResults[btdcoded_name].mean_ms
               /\ rec.original_name = btdcoded_name

----------------------------------------------------------------------------
(* Properties of stop_bitcoind *)

\* C17: no invocation of stop_bitcoind raises, whatever the stop command did: a
\* client that exits non-zero because the daemon is gone and a client that does not
\* end within 10 s are both swallowed, so a stop after a stop returns as well.
C17_StopNeverRaises ==
    \A k \in 1..Len(stopLog) : ~stopLog[k].raised

\* stop was invoked after a stop that shut the daemon down, the later one exited
\* non-zero, and some invocation timed out
C17_Witness ==
    /\ \E k \in 1..Len(stopLog) : stopLog[k].o.kind = "timeout"
    /\ \E k \in 2..Len(stopLog) :
          /\ stopLog[k - 1].o.kind = "exit" /\ stopLog[k - 1].o.rc = 0
          /\ stopLog[k].o.kind = "exit" /\ stopLog[k].o.rc # 0

----------------------------------------------------------------------------
(* Properties of the timed loops, of start_bitcoind and of the order of calls *)

\* the step at which workload w runs its timed loop
LoopPc(w) ==
    CASE w = "transaction_validation" -> "tx_loop"
      [] w = "block_validation"       -> "bl_loop"
      [] w = "hash_operations"        -> "hs_loop"

\* C18: a timed call that yields no usable value drops that sample only: while a
\* loop runs, the timed calls made so far are the turns done so far and the samples
\* kept are the usable ones; a workload that returned from its loop made every one of
\* its 50, 10 or 100 timed calls, and the samples it reports are the usable calls.
C18_FailedCallDropsOneSample ==
    \A w \in Workloads :
        /\ pc = LoopPc(w) => (iters[w] = i /\ times.len = usable[w] /\ i < Repeats(w))
        /\ w \in DOMAIN benchmarks =>
              LET r == benchmarks[w] IN
              /\ iters[w] \in {0, Repeats(w)}
              /\ usable[w] <= iters[w]
              /\ IsStat(r) => (iters[w] = Repeats(w) /\ r.samples = usable[w])
              /\ (IsError(r) /\ r.error = "No valid measurements") =>
                    (iters[w] = Repeats(w) /\ usable[w] = 0)
              /\ (IsError(r) /\ r.error # "No valid measurements") => iters[w] = 0

\* a workload reported a statistic over fewer samples than its repeat count: some of
\* its timed calls failed, and the loop went on to the last turn
C18_Witness ==
    \E w \in DOMAIN benchmarks :
        /\ IsStat(benchmarks[w])
        /\ benchmarks[w].samples < Repeats(w)
        /\ iters[w] = Repeats(w)

\* C19: when start_bitcoind is about to launch the daemon the regtest directory is
\* there and holds nothing of an earlier run, whatever was there before; and when the
\* daemon binary is missing or not executable start_bitcoind has failed with the data
\* directory untouched, nothing removed, no process launched and no call made.
C19_StartIdempotent ==
    /\ pc = "launch" => (regtestDir = "fresh" /\ startDirOps /\ daemon = "none")
    /\ startResult = "binary_not_found" =>
          /\ ~startDirOps
          /\ regtestDir # "fresh" /\ rmCalls = 0
          /\ daemon = "none" /\ polls = 0
          /\ pc = "returned" /\ ret.kind = "error"

\* the daemon came up in a regtest directory that start_bitcoind made for this run
C19_Witness ==
    /\ startResult = "ready"
    /\ regtestDir = "fresh" /\ startDirOps
    /\ daemon = "up"

\* the step p of a run issues a remote call: a liveness poll or a workload call
IssuesCall(p) == p \in {"poll", "recheck"} \/ WorkloadAt(p) # "none"

\* C20: a workload step is reached only after start_bitcoind reported ready and
\* before stop_bitcoind is invoked, and no call at all is issued after the stop;
\* stop_bitcoind is invoked at most once, and only if start succeeded; the regtest
\* directory is removed by the run only after stop_bitcoind was invoked.
C20_CallsBetweenStartAndStop ==
    /\ WorkloadAt(pc) # "none" => (startResult = "ready" /\ stopInvoked = 0)
    /\ stopInvoked >= 1 => ~IssuesCall(pc)
    /\ stopInvoked <= 1
    /\ stopInvoked = 1 => startResult = "ready"
    /\ (rmCalls >= 1 \/ pc = "finally_rm") => stopInvoked = 1

\* a run made workload calls, then stopped the daemon once, then removed the directory
C20_Witness ==
    /\ pc = "returned"
    /\ order # <<>>
    /\ stopInvoked = 1 /\ stopSent = 1
    /\ rmCalls = 1

\* C21: the export that was written has as many records as the parser returned
\* entries: no two native names of one report end up under one canonical key.
C21_ExportLosesNothing ==
    (epc = "exited" /\ exportExit = "0") =>
        /\ Cardinality(DOMAIN exportOutput) = Cardinality(DOMAIN exportResults)
        /\ \A a, b \in DOMAIN exportResults : CoreName(a) = CoreName(b) => a = b

=============================================================================
